---------------------------- MODULE Spec2Model ----------------------------
(***************************************************************************)
(* A model of the FAT12 image reader of src/src/main.rs: FAT12::new (load, *)
(* boot sector, root directory, FAT), FAT12::parse, FAT12::search_file,    *)
(* FAT12::read_file and FATPrepare::read_sector.                           *)
(*                                                                         *)
(* Byte buffers (Vec<u8>) are sequences of 0..255; a Rust index i is the   *)
(* TLA+ index i + 1.  Integer arithmetic keeps the width of the Rust type: *)
(* an overflowing u16 or u32 operation panics in a build with overflow     *)
(* checks (build = "debug") and wraps otherwise (build = "release").       *)
(* usize is taken to be 64 bits wide and the host little-endian, so that   *)
(* bytemuck::from_bytes reads a u16 field low byte first.                  *)
(***************************************************************************)
EXTENDS Integers, Sequences, FiniteSets, TLC

VARIABLES
    build,        \* "debug" (overflow checks on) or "release" (wrapping)
    file,         \* the file at `path`: whether it opens and reads, and what it holds
    name,         \* the 11-byte name handed to parse
    pc,           \* position of the program
    disk,         \* FAT12.disk / local `disk` of new
    bootsector,   \* FAT12.bootsector
    rootdir,      \* FAT12.rootdir
    rootdir_end,  \* FAT12.rootdir_end
    fat,          \* FAT12.fat
    cluster,      \* local `cluster` of read_file
    output,       \* local `output` of read_file
    result,       \* what new / parse / read_sector handed back
    args          \* arguments of a direct read_sector call

vars == <<build, file, name, pc, disk, bootsector, rootdir, rootdir_end, fat,
          cluster, output, result, args>>

---------------------------------------------------------------------------
(* Widths and fixed sizes *)

U8 == 2^8
U16 == 2^16

\* size_of::<FATBootsector>() for the packed layout of lines 6-28
BootsectorSize == 62
\* size_of::<FATDirectoryEntry>() for the packed layout of lines 35-48
DirEntrySize == 32
\* the literal 0x0ff8 of line 141
ChainEndLiteral == 4088

\* Bytes the allocator grants `output` before extend_from_slice aborts.
MemLimit == 400

---------------------------------------------------------------------------
(* Checked / wrapping integer operations *)

add16(a, b) == [ovf |-> a + b >= U16, val |-> (a + b) % U16]
sub16(a, b) == [ovf |-> a < b, val |-> (a - b) % U16]
mul16(a, b) == [ovf |-> a * b >= U16, val |-> (a * b) % U16]

\* u32 product of a (0 <= a < 2^31) and b (0 <= b < 2^16), by 16-bit limbs:
\* the value is hi * 2^16 + lo, and ovf says the true product is >= 2^32.
mul32(a, b) ==
    LET ah == a \div U16
        al == a % U16
        bh == b \div U8
        bl == b % U8
        p1 == al * bl
        p2 == al * bh
        low == (p2 % U8) * U8 + p1
        carry == (low \div U16) + (p2 \div U8)
        ahb == ah * b
        mid == (ahb % U16) + carry
    IN  [ovf |-> (ahb \div U16) + (mid \div U16) > 0,
         hi |-> mid % U16,
         lo |-> low % U16]

---------------------------------------------------------------------------
(* Little-endian field decoding (bytemuck::from_bytes on a packed struct) *)

Byte(bytes, off) == bytes[off + 1]
LE16(bytes, off) == Byte(bytes, off) + U8 * Byte(bytes, off + 1)

Slice(bytes, from, to) == SubSeq(bytes, from + 1, to)

FATBootsector(bytes) ==
    [ bytes_per_sector   |-> LE16(bytes, 11),
      sector_per_cluster |-> Byte(bytes, 13),
      reserved_sectors   |-> LE16(bytes, 14),
      fat_count          |-> Byte(bytes, 16),
      root_dir_ent       |-> LE16(bytes, 17),
      total_sector       |-> LE16(bytes, 19),
      sector_per_fat     |-> LE16(bytes, 22) ]

FATDirectoryEntry(bytes) ==
    [ name          |-> Slice(bytes, 0, 11),
      attributes    |-> Byte(bytes, 11),
      low_16b_entry |-> LE16(bytes, 26),
      size          |-> Slice(bytes, 28, 32) ]

\* the all-zero header a Zeroable FATBootsector starts from
ZeroBootsector ==
    [ bytes_per_sector |-> 0, sector_per_cluster |-> 0, reserved_sectors |-> 0,
      fat_count |-> 0, root_dir_ent |-> 0, total_sector |-> 0,
      sector_per_fat |-> 0 ]

Ok(v) == [tag |-> "Ok", val |-> v]
Err(m) == [tag |-> "Err", msg |-> m]
Panic(m) == [tag |-> "Panic", msg |-> m]
Abort == [tag |-> "Abort"]
Unset == [tag |-> "Unset"]


---------------------------------------------------------------------------
(* The images the program is run on *)

\* Data clusters (numbered from 2) a full image holds after the root directory.
DataClusters == 3
\* Largest root_dir_ent of the well-formed images.
MaxRootEntries == 3

TestTxt == <<84, 69, 83, 84, 32, 32, 32, 32, 84, 88, 84>>    \* "TEST    TXT"
NopeTxt == <<78, 79, 80, 69, 32, 32, 32, 32, 84, 88, 84>>    \* "NOPE    TXT"
FileBin == <<70, 73, 76, 69, 32, 32, 32, 32, 66, 73, 78>>    \* "FILE    BIN"

CeilDiv(a, b) == IF b = 0 THEN 0 ELSE (a + b - 1) \div b

Link(links, c) == IF c < Len(links) THEN links[c + 1] ELSE 0

\* byte j of a FAT whose 12-bit entries are `links`, two entries per three bytes
FatByte(links, j) ==
    LET e0 == Link(links, 2 * (j \div 3))
        e1 == Link(links, 2 * (j \div 3) + 1)
    IN  CASE j % 3 = 0 -> e0 % U8
          [] j % 3 = 1 -> (e0 \div U8) + 16 * (e1 % 16)
          [] OTHER     -> e1 \div 16

\* byte `off` of a root directory holding the entries `dir`
DirByte(dir, off) ==
    LET e == off \div DirEntrySize
        w == off % DirEntrySize
    IN  IF e >= Len(dir) THEN 0
        ELSE IF w < 11 THEN dir[e + 1].name[w + 1]
        ELSE IF w = 26 THEN dir[e + 1].clus % U8
        ELSE IF w = 27 THEN dir[e + 1].clus \div U8
        ELSE IF w = 28 THEN 5
        ELSE 0

HeaderByte(g, q) ==
    CASE q = 11 -> g.bps % U8
      [] q = 12 -> g.bps \div U8
      [] q = 13 -> g.spc
      [] q = 14 -> g.reserved % U8
      [] q = 15 -> g.reserved \div U8
      [] q = 16 -> g.fats
      [] q = 17 -> g.ents % U8
      [] q = 18 -> g.ents \div U8
      [] q = 22 -> g.spf % U8
      [] q = 23 -> g.spf \div U8
      [] OTHER  -> 0

FatStart(g) == g.reserved * g.bps
RootStart(g) == FatStart(g) + g.fats * g.spf * g.bps
DataStart(g) == RootStart(g) + CeilDiv(DirEntrySize * g.ents, g.bps) * g.bps

\* An image laid out as section 6 of the specification orders it: header,
\* FAT copies, root directory, data region; `len` bytes of it are kept.
MkImage(g, dir, links, len) ==
    [p \in 1..len |->
        LET q == p - 1
        IN  IF q < BootsectorSize THEN HeaderByte(g, q)
            ELSE IF q < FatStart(g) THEN 0
            ELSE IF q < RootStart(g)
            THEN FatByte(links, (q - FatStart(g)) % (g.spf * g.bps))
            ELSE IF q < DataStart(g) THEN DirByte(dir, q - RootStart(g))
            ELSE (q % 251) + 1]

Geometries ==
    { [bps |-> b, spc |-> c, reserved |-> CeilDiv(BootsectorSize, b),
       fats |-> 1, ents |-> e, spf |-> 1] :
        b \in {32, 64}, c \in {0, 1, 3}, e \in 1..MaxRootEntries }

\* FAT contents and the first cluster of TEST.TXT
Chains ==
    { [links |-> <<4080, 4095, 3, m>>, start |-> 2] : m \in 4088..4095 }
    \cup { [links |-> <<4080, 4095, 0, m>>, start |-> 3] : m \in {4088, 4095} }
    \cup { [links |-> <<4080, 4095, 3, 2>>, start |-> 2] }
    \cup { [links |-> <<4080, 4095, v, 4095>>, start |-> 2] : v \in {4080, 4087, 0} }
    \cup { [links |-> <<4080, 4095, 4095, 4095>>, start |-> s] :
             s \in {0, 1, 40, 21848} }

Directory(kind, start, ents) ==
    LET all == IF kind = "first"
               THEN << [name |-> TestTxt, clus |-> start],
                       [name |-> TestTxt, clus |-> 4],
                       [name |-> FileBin, clus |-> 4] >>
               ELSE << [name |-> FileBin, clus |-> 4],
                       [name |-> TestTxt, clus |-> start],
                       [name |-> TestTxt, clus |-> 4] >>
    IN  SubSeq(all, 1, IF ents < Len(all) THEN ents ELSE Len(all))

FullLen(g) == DataStart(g) + DataClusters * g.spc * g.bps

\* A file is named by what it holds: the geometry g of its header, the
\* directory layout, the FAT links, the first cluster of TEST.TXT and the
\* number of bytes kept.  Every image comes whole, and cut after its first
\* data cluster.
ImagesOf(g) ==
    { [g |-> g, kind |-> k, start |-> ch.start, links |-> ch.links, len |-> n] :
        ch \in Chains, k \in {"first", "later"},
        n \in {FullLen(g), DataStart(g) + g.spc * g.bps} }

Images == UNION { ImagesOf(g) : g \in Geometries }

\* Malformed images: shorter than the header, no data behind the header, a
\* zero sector size, a FAT that lies past the end of the image, a directory
\* size that does not fit 16 bits.
OddImages ==
    LET g0 == [bps |-> 32, spc |-> 1, reserved |-> 2, fats |-> 1, ents |-> 1,
               spf |-> 1]
        i0 == [g |-> g0, kind |-> "first", start |-> 2,
               links |-> <<4080, 4095, 4095>>, len |-> 128]
    IN  { [i0 EXCEPT !.len = 40],
          [i0 EXCEPT !.len = BootsectorSize],
          [i0 EXCEPT !.g.bps = 0],
          [i0 EXCEPT !.g.fats = 0, !.g.spf = 8],
          [i0 EXCEPT !.g.ents = 2049, !.len = 256] }

\* the bytes read_to_end finds in the file
FileBytes(f) ==
    MkImage(f.image.g, Directory(f.image.kind, f.image.start, f.image.g.ents),
            f.image.links, f.image.len)

---------------------------------------------------------------------------
(* FATPrepare: the steps of opening an image *)

\* load_image, lines 156-165: File::open failing is an Err, read_to_end
\* failing is the panic of .expect
load_image(f) ==
    IF f.state = "missing" THEN Err("failed to load file")
    ELSE IF f.state = "unreadable" THEN Panic("Cannot Read file at")
    ELSE Ok(FileBytes(f))

\* read_bootsector, lines 167-172
read_bootsector(data) ==
    IF Len(data) < BootsectorSize THEN Err("read_bootsector failed")
    ELSE Ok(FATBootsector(Slice(data, 0, BootsectorSize)))

\* chunks_exact(size_of::<T>()).filter_map(T::from_bytes), lines 199-203:
\* a trailing partial chunk is dropped, every whole chunk decodes
DecodeChunks(T, bytes) ==
    IF T = "u8" THEN bytes
    ELSE [i \in 1..(Len(bytes) \div DirEntrySize) |->
            FATDirectoryEntry(Slice(bytes, DirEntrySize * (i - 1), DirEntrySize * i))]

\* a u32 start_pos of 2^31 or more (hi limb >= 2^15): no Vec<u8> of the model
\* is that long, so the test end_pos > disk.len() of line 194 is true
StartPosTooBig(sp) == sp.hi >= 2^15

\* read_sector, lines 188-206.  lba * bytes_per_sector is a u32 product;
\* a wrapped start_pos of 2^31 or more lies past every buffer of the model,
\* so end_pos > disk.len() holds there without forming the sum.
read_sector(T, header, d, lba, total) ==
    LET sp == mul32(lba, header.bytes_per_sector)
        start_pos == sp.hi * U16 + sp.lo
        end_pos == start_pos + total * header.bytes_per_sector
    IN  IF sp.ovf /\ build = "debug"
        THEN Panic("attempt to multiply with overflow")
        ELSE IF StartPosTooBig(sp) \/ end_pos > Len(d)
        THEN Err("read_sector out of bound")
        ELSE Ok(DecodeChunks(T, Slice(d, start_pos, end_pos)))

\* the sector count of line 177
RootDirSectors(size, bytes_per_sector) == size \div bytes_per_sector

\* read_root_directory, lines 174-181
read_root_directory(d, header) ==
    LET m == mul16(header.sector_per_fat, header.fat_count)
        lba == add16(header.reserved_sectors, m.val)
        size == mul16(DirEntrySize, header.root_dir_ent)
        sectors == RootDirSectors(size.val, header.bytes_per_sector)
        end == add16(lba.val, sectors)
        root == read_sector("FATDirectoryEntry", header, d, lba.val, sectors)
    IN  IF build = "debug" /\ (m.ovf \/ lba.ovf \/ size.ovf)
        THEN Panic("attempt to multiply or add with overflow")
        ELSE IF header.bytes_per_sector = 0
        THEN Panic("attempt to divide by zero")
        ELSE IF build = "debug" /\ end.ovf
        THEN Panic("attempt to add with overflow")
        ELSE IF root.tag = "Ok"
        THEN Ok([root |-> root.val, end |-> end.val])
        ELSE root

\* read_fat, lines 183-186
read_fat(header, d) ==
    read_sector("u8", header, d, header.reserved_sectors, header.sector_per_fat)

---------------------------------------------------------------------------
(* FAT12: lookup and the cluster-chain walk *)

SetMin(S) == CHOOSE x \in S : \A y \in S : x <= y

\* the slice comparison of line 121
NameEq(entry, file_name) == entry.name = file_name

\* the range of line 120
SearchRange(root_dir_ent) == 0..(root_dir_ent - 1)

\* search_file, lines 119-126: rootdir[i] is indexed for every i below
\* root_dir_ent until a name matches; an index past the vector panics
search_file(file_name) ==
    LET inside == {i \in SearchRange(bootsector.root_dir_ent) : i < Len(rootdir)}
        hits == {i \in inside : NameEq(rootdir[i + 1], file_name)}
    IN  IF hits # {}
        THEN [tag |-> "Some", idx |-> SetMin(hits), val |-> rootdir[SetMin(hits) + 1]]
        ELSE IF bootsector.root_dir_ent > Len(rootdir)
        THEN Panic("index out of bounds")
        ELSE [tag |-> "None"]

\* lines 136-140: the 12-bit link of `c` read at byte index fat_index
next_cluster(table, c, fat_index) ==
    IF c % 2 = 0
    THEN (Byte(table, fat_index) + U8 * Byte(table, fat_index + 1)) % 4096
    ELSE (Byte(table, fat_index) \div 16) + 16 * Byte(table, fat_index + 1)

\* the test of line 141
ChainEnds(c) == c > ChainEndLiteral

\* one pass of the loop of read_file, lines 132-141
read_file_iter(c, out) ==
    LET off == sub16(c, 2)
        rel == mul16(off.val, bootsector.sector_per_cluster)
        lba == rootdir_end + rel.val
        data == read_sector("u8", bootsector, disk, lba,
                            bootsector.sector_per_cluster)
        c3 == mul16(c, 3)
        fat_index == c3.val \div 2
        next == next_cluster(fat, c, fat_index)
    IN  IF build = "debug" /\ (off.ovf \/ rel.ovf)
        THEN Panic("attempt to subtract or multiply with overflow")
        ELSE IF data.tag # "Ok"
        THEN data
        ELSE IF Len(out) + Len(data.val) > MemLimit
        THEN Abort
        ELSE IF build = "debug" /\ c3.ovf
        THEN Panic("attempt to multiply with overflow")
        ELSE IF fat_index + 1 >= Len(fat)
        THEN Panic("index out of bounds")
        ELSE [tag |-> IF ChainEnds(next) THEN "Break" ELSE "Continue",
              cluster |-> next, output |-> out \o data.val]

---------------------------------------------------------------------------
(* The program: FAT12::new, then FAT12::parse *)

NoArgs == [lba |-> 0, total |-> 0, bytes_per_sector |-> 0]

Files ==
    { [state |-> st, image |-> i] :
        st \in {"ok"}, i \in Images \cup OddImages }
    \cup { [state |-> st, image |-> CHOOSE i \in OddImages : i.len = 40] :
             st \in {"missing", "unreadable"} }

Init ==
    /\ build \in {"debug", "release"}
    /\ file \in Files
    /\ name \in {TestTxt, NopeTxt}
    /\ pc = "load"
    /\ disk = <<>>
    /\ bootsector = ZeroBootsector
    /\ rootdir = <<>>
    /\ rootdir_end = 0
    /\ fat = <<>>
    /\ cluster = 0
    /\ output = <<>>
    /\ result = Unset
    /\ args = NoArgs

\* where new stops when a step hands back r instead of Ok
Stopped(r) == IF r.tag = "Err" THEN "new_err" ELSE "new_panic"

\* line 106
NewLoadImage ==
    /\ pc = "load"
    /\ LET r == load_image(file)
       IN  IF r.tag = "Ok"
           THEN /\ disk' = r.val
                /\ pc' = "bootsector"
                /\ UNCHANGED result
           ELSE /\ result' = r
                /\ pc' = Stopped(r)
                /\ UNCHANGED disk
    /\ UNCHANGED <<build, file, name, bootsector, rootdir, rootdir_end, fat,
                   cluster, output, args>>

\* line 107
NewReadBootsector ==
    /\ pc = "bootsector"
    /\ LET r == read_bootsector(disk)
       IN  IF r.tag = "Ok"
           THEN /\ bootsector' = r.val
                /\ pc' = "rootdir"
                /\ UNCHANGED result
           ELSE /\ result' = r
                /\ pc' = Stopped(r)
                /\ UNCHANGED bootsector
    /\ UNCHANGED <<build, file, name, disk, rootdir, rootdir_end, fat,
                   cluster, output, args>>

\* line 108 without its `?`: a failed read is dropped and new goes on to the
\* FAT with an empty directory (a mutant of NewReadRootDirectory)
NewReadRootDirectoryGoesOn ==
    /\ pc = "rootdir"
    /\ LET r == read_root_directory(disk, bootsector)
       IN  IF r.tag = "Ok"
           THEN /\ rootdir' = r.val.root
                /\ rootdir_end' = r.val.end
           ELSE UNCHANGED <<rootdir, rootdir_end>>
    /\ pc' = "fat"
    /\ UNCHANGED <<build, file, name, disk, bootsector, fat, cluster, output,
                   result, args>>

\* line 108
NewReadRootDirectory ==
    /\ pc = "rootdir"
    /\ LET r == read_root_directory(disk, bootsector)
       IN  IF r.tag = "Ok"
           THEN /\ rootdir' = r.val.root
                /\ rootdir_end' = r.val.end
                /\ pc' = "fat"
                /\ UNCHANGED result
           ELSE /\ result' = r
                /\ pc' = Stopped(r)
                /\ UNCHANGED <<rootdir, rootdir_end>>
    /\ UNCHANGED <<build, file, name, disk, bootsector, fat, cluster, output,
                   args>>

\* lines 109-116: with the FAT read, the FAT12 value exists
NewReadFat ==
    /\ pc = "fat"
    /\ LET r == read_fat(bootsector, disk)
       IN  IF r.tag = "Ok"
           THEN /\ fat' = r.val
                /\ pc' = "opened"
                /\ UNCHANGED result
           ELSE /\ result' = r
                /\ pc' = Stopped(r)
                /\ UNCHANGED fat
    /\ UNCHANGED <<build, file, name, disk, bootsector, rootdir, rootdir_end,
                   cluster, output, args>>

\* parse, lines 146-152, up to the first pass of read_file's loop
\* (lines 129-130)
Parse ==
    /\ pc = "opened"
    /\ LET e == search_file(name)
       IN  CASE e.tag = "Some" ->
                  /\ cluster' = e.val.low_16b_entry
                  /\ output' = <<>>
                  /\ pc' = "read_file"
                  /\ UNCHANGED result
             [] e.tag = "None" ->
                  /\ result' = Err("Error Parse File")
                  /\ pc' = "parse_err"
                  /\ UNCHANGED <<cluster, output>>
             [] OTHER ->
                  /\ result' = e
                  /\ pc' = "parse_panic"
                  /\ UNCHANGED <<cluster, output>>
    /\ UNCHANGED <<build, file, name, disk, bootsector, rootdir, rootdir_end,
                   fat, args>>

\* one pass of the loop of read_file, lines 131-142, and on leaving it the
\* return of lines 143 and 148-149
ReadFileLoop ==
    /\ pc = "read_file"
    /\ LET it == read_file_iter(cluster, output)
       IN  CASE it.tag = "Continue" ->
                  /\ cluster' = it.cluster
                  /\ output' = it.output
                  /\ UNCHANGED <<pc, result>>
             [] it.tag = "Break" ->
                  /\ cluster' = it.cluster
                  /\ output' = it.output
                  /\ result' = Ok(it.output)
                  /\ pc' = "parse_ok"
             [] it.tag = "Err" ->
                  /\ result' = it
                  /\ pc' = "parse_err"
                  /\ UNCHANGED <<cluster, output>>
             [] it.tag = "Panic" ->
                  /\ result' = it
                  /\ pc' = "parse_panic"
                  /\ UNCHANGED <<cluster, output>>
             [] OTHER ->
                  /\ result' = it
                  /\ pc' = "abort"
                  /\ UNCHANGED <<cluster, output>>
    /\ UNCHANGED <<build, file, name, disk, bootsector, rootdir, rootdir_end,
                   fat, args>>

Next ==
    \/ NewLoadImage
    \/ NewReadBootsector
    \/ NewReadRootDirectory
    \/ NewReadFat
    \/ Parse
    \/ ReadFileLoop

Spec == Init /\ [][Next]_vars

\* the program is sequential: a step that can be taken is taken
FairSpec == Spec /\ WF_vars(Next)

---------------------------------------------------------------------------
(* read_sector on its own: every argument drawn from a small set *)

Buffers == { <<>>, <<11, 12, 13, 14, 15, 16, 17, 18>> }

SectorArgs ==
    { [lba |-> l, total |-> t, bytes_per_sector |-> b] :
        l \in {0, 1, 2, 3, 2^16, 2^30, 2^30 + 1, 2147483640},
        t \in 0..3,
        b \in {0, 1, 2, 4, 512, 65535} }

InitReadSector ==
    /\ build \in {"debug", "release"}
    /\ args \in SectorArgs
    /\ disk \in Buffers
    /\ pc = "rs_call"
    /\ file = [state |-> "missing", image |-> CHOOSE i \in OddImages : i.len = 40]
    /\ name = TestTxt
    /\ bootsector = ZeroBootsector
    /\ rootdir = <<>>
    /\ rootdir_end = 0
    /\ fat = <<>>
    /\ cluster = 0
    /\ output = <<>>
    /\ result = Unset

\* read_sector::<u8>(header, disk, lba, total), lines 188-206
ReadSectorCall ==
    /\ pc = "rs_call"
    /\ result' = read_sector("u8",
                     [ZeroBootsector EXCEPT
                        !.bytes_per_sector = args.bytes_per_sector],
                     disk, args.lba, args.total)
    /\ pc' = "rs_done"
    /\ UNCHANGED <<build, file, name, disk, bootsector, rootdir, rootdir_end,
                   fat, cluster, output, args>>

SpecReadSector == InitReadSector /\ [][ReadSectorCall]_vars

---------------------------------------------------------------------------
(* What the claims speak of, in unbounded arithmetic *)

\* parse has called read_file (entered, left or died in it)
InReadFile == pc \in {"read_file", "parse_ok", "parse_err", "parse_panic", "abort"}
               /\ search_file(name).tag = "Some"

\* the cluster read_file starts from
StartCluster == search_file(name).val.low_16b_entry

\* the c-th 12-bit entry of a FAT byte table exists / its value
HasEntry12(table, c) == (3 * c) \div 2 + 1 < Len(table)
Entry12(table, c) ==
    LET i == (3 * c) \div 2
        w == table[i + 1] + 256 * table[i + 2]
    IN  IF c % 2 = 0 THEN w % 4096 ELSE w \div 16

\* the byte range of data cluster c after the root directory
ClusterFrom(c) == (rootdir_end + (c - 2) * bootsector.sector_per_cluster)
                     * bootsector.bytes_per_sector
ClusterBytesLen == bootsector.sector_per_cluster * bootsector.bytes_per_sector
IsDataCluster(c) ==
    /\ c >= 2
    /\ HasEntry12(fat, c)
    /\ ClusterFrom(c) + ClusterBytesLen <= Len(disk)
ClusterBytes(c) == Slice(disk, ClusterFrom(c), ClusterFrom(c) + ClusterBytesLen)

\* Number of clusters of the chain starting at c when every cluster of it is
\* a data cluster and its last link is one of `markers`; 0 when it is not
\* such a chain.
RECURSIVE ChainLength(_, _, _)
ChainLength(c, markers, fuel) ==
    IF fuel = 0 \/ ~IsDataCluster(c) THEN 0
    ELSE IF Entry12(fat, c) \in markers THEN 1
    ELSE LET rest == ChainLength(Entry12(fat, c), markers, fuel - 1)
         IN  IF rest = 0 THEN 0 ELSE rest + 1

\* a walk that ends reads no 12-bit entry twice: more passes than the table
\* has entries is a cycle
Fuel == (2 * Len(fat)) \div 3 + 1

\* the clusters the loop of read_file goes through from c until it breaks
RECURSIVE Walked(_, _)
Walked(c, fuel) ==
    LET next == next_cluster(fat, c, mul16(c, 3).val \div 2)
    IN  IF fuel = 0 \/ ChainEnds(next) THEN <<c>>
        ELSE <<c>> \o Walked(next, fuel - 1)

RECURSIVE ConcatClusters(_)
ConcatClusters(cs) ==
    IF cs = <<>> THEN <<>>
    ELSE ClusterBytes(Head(cs)) \o ConcatClusters(Tail(cs))

---------------------------------------------------------------------------
(* The claims *)

\* C1: for a FAT holding a chain of N >= 1 data clusters whose last link is
\* any of the end-of-chain markers 0x0FF8..0x0FFF, read_file started at the
\* chain's first cluster stops after N clusters and returns exactly
\* N * sectors_per_cluster * bytes_per_sector bytes.
C1_WalkStopsAtEveryEndMarker ==
    LET n == ChainLength(StartCluster, 4088..4095, Fuel)
    IN  (InReadFile /\ n >= 1) =>
          /\ pc \in {"read_file", "parse_ok"}
          /\ Len(output) <= n * ClusterBytesLen
          /\ pc = "parse_ok" => Len(result.val) = n * ClusterBytesLen

\* C2: when the walk resolves a next-cluster value in the reserved/bad range
\* 0xFF0..0xFF7, read_file returns a decode failure: it neither goes on
\* walking with that value as its cluster nor ends the chain as a success.
C2_ReservedLinkIsDecodeFailure ==
    [][(pc = "read_file" /\ HasEntry12(fat, cluster)
          /\ Entry12(fat, cluster) \in 4080..4087
          /\ read_file_iter(cluster, output).tag \in {"Continue", "Break"})
        => (pc' = "parse_err" /\ result'.tag = "Err")]_vars

\* C3: read_root_directory reads ceil(32 * root_dir_ent / bytes_per_sector)
\* sectors: the entries decoded cover all root_dir_ent entries and the end
\* LBA is the start LBA plus that rounded-up count.
C3_RootDirSectorsRoundUp ==
    pc = "fat" =>
      LET lba == bootsector.reserved_sectors
                   + bootsector.sector_per_fat * bootsector.fat_count
          sectors == CeilDiv(DirEntrySize * bootsector.root_dir_ent,
                             bootsector.bytes_per_sector)
      IN  /\ rootdir_end = lba + sectors
          /\ Len(rootdir) >= bootsector.root_dir_ent

\* C4: on an opened image search_file returns the lowest-positioned decoded
\* root directory entry whose 11-byte name equals the name byte for byte,
\* and None when no decoded entry has that name.
C4_SearchFindsFirstMatchOrNone ==
    pc = "opened" =>
      LET matches == {i \in 0..(Len(rootdir) - 1) : rootdir[i + 1].name = name}
          e == search_file(name)
      IN  IF matches = {}
          THEN e.tag = "None"
          ELSE e.tag = "Some" /\ e.idx = SetMin(matches)

\* C5: read_sector returns the out-of-bounds error for every (lba, count)
\* whose true byte range end (lba + count) * bytes_per_sector exceeds the
\* image length, also when lba * bytes_per_sector does not fit 32 bits.
C5_OutOfRangeIsRejected ==
    (/\ pc = "rs_done"
     /\ args.bytes_per_sector > 0
     /\ args.lba > (Len(disk) \div args.bytes_per_sector) - args.total)
    => result = Err("read_sector out of bound")

\* C6: on every image open succeeds on, parse ends in Ok or Err and never
\* aborts: no directory or FAT index out of range, no 16-bit overflow.
C6_ParseNeverAborts == pc \notin {"parse_panic", "abort"}

\* C7: new runs load, boot sector, root directory, FAT in that order; a step
\* is reached only when every earlier one succeeded, a failing step ends new
\* with no later step run and no FAT12 value, and what new hands back is what
\* the first failing step handed back.
C7_OpenStopsAtFirstFailure ==
    LET ld == load_image(file)
        bs == read_bootsector(ld.val)
        rd == read_root_directory(ld.val, bs.val)
        ft == read_fat(bs.val, ld.val)
        noDisk == disk = <<>>
        noBoot == bootsector = ZeroBootsector
        noRoot == rootdir = <<>> /\ rootdir_end = 0
        noFat == fat = <<>>
        opened == pc \in {"opened", "read_file", "parse_ok", "parse_err",
                          "parse_panic", "abort"}
    IN  /\ pc = "load" =>
              noDisk /\ noBoot /\ noRoot /\ noFat /\ result = Unset
        /\ pc = "bootsector" =>
              /\ ld.tag = "Ok" /\ disk = ld.val
              /\ noBoot /\ noRoot /\ noFat /\ result = Unset
        /\ pc = "rootdir" =>
              /\ ld.tag = "Ok" /\ disk = ld.val
              /\ bs.tag = "Ok" /\ bootsector = bs.val
              /\ noRoot /\ noFat /\ result = Unset
        /\ pc = "fat" =>
              /\ ld.tag = "Ok" /\ disk = ld.val
              /\ bs.tag = "Ok" /\ bootsector = bs.val
              /\ rd.tag = "Ok" /\ rootdir = rd.val.root /\ rootdir_end = rd.val.end
              /\ noFat /\ result = Unset
        /\ opened =>
              /\ ld.tag = "Ok" /\ disk = ld.val
              /\ bs.tag = "Ok" /\ bootsector = bs.val
              /\ rd.tag = "Ok" /\ rootdir = rd.val.root /\ rootdir_end = rd.val.end
              /\ ft.tag = "Ok" /\ fat = ft.val
        /\ pc \in {"new_err", "new_panic"} =>
              /\ (pc = "new_err") = (result.tag = "Err")
              /\ CASE ld.tag # "Ok" ->
                        result = ld /\ noDisk /\ noBoot /\ noRoot /\ noFat
                   [] bs.tag # "Ok" ->
                        result = bs /\ noBoot /\ noRoot /\ noFat
                   [] rd.tag # "Ok" ->
                        result = rd /\ noRoot /\ noFat
                   [] OTHER ->
                        ft.tag # "Ok" /\ result = ft /\ noFat

\* C7 witness: load and the boot sector succeeded, the root directory read
\* failed, and new handed back its error without reading the FAT
C7_RootDirectoryFailsFirst ==
    /\ pc = "new_err"
    /\ bootsector # ZeroBootsector
    /\ rootdir = <<>> /\ fat = <<>>
    /\ result = Err("read_sector out of bound")

\* C8: every read_file call is bounded: the loop of the cluster-chain walk
\* is left after finitely many passes, whatever the FAT holds.
C8_WalkEnds == (pc = "read_file") ~> (pc # "read_file")

\* C9: for every cluster c the walk visits, the next cluster resolved is the
\* c-th 12-bit packed entry of the FAT (i = c * 3 / 2, w = fat[i] + 256 *
\* fat[i+1], w mod 4096 for even c and w div 16 for odd c), in 0..0xFFF.
C9_NextIsTheCthEntry ==
    [][(pc = "read_file" /\ pc' \in {"read_file", "parse_ok"})
        => /\ HasEntry12(fat, cluster)
           /\ cluster' = Entry12(fat, cluster)
           /\ cluster' \in 0..4095]_vars

\* C10: when read_file succeeds for the chain c1..cN it walked, the bytes
\* returned are the concatenation, in chain order, of the image bytes of the
\* sectors_per_cluster sectors at LBA rootdir_end + (ck - 2) *
\* sectors_per_cluster, each cluster once.
C10_OutputIsClustersInChainOrder ==
    pc = "parse_ok" =>
      LET cs == Walked(StartCluster, Fuel)
      IN  /\ \A k \in 1..Len(cs) :
                /\ ClusterFrom(cs[k]) >= 0
                /\ ClusterFrom(cs[k]) + ClusterBytesLen <= Len(disk)
          /\ result.val = ConcatClusters(cs)

===========================================================================
